---- MODULE Spec2Model ----
(***************************************************************************)
(* Model of application.py: a Flask application that logs a user in with   *)
(* OAuth2, fetches listening statistics from the streaming API, renders    *)
(* them, relays recently-played items to an aggregation endpoint and       *)
(* exports a CSV report to object storage.                                 *)
(*                                                                         *)
(* One action models one HTTP request handled to completion.  Python str   *)
(* values are TLA+ strings, lists are sequences, dicts are functions whose *)
(* domain is the set of keys present.  Upstream responses are inputs of    *)
(* the actions.  req is the request last handled, with the session dict    *)
(* its cookie carried; resp is the response to it; calls lists the         *)
(* upstream calls the handler made, each with the response it got.         *)
(***************************************************************************)
EXTENDS Integers, Sequences, FiniteSets, TLC

VARIABLES session, clock, s3, req, resp, calls

vars == <<session, clock, s3, req, resp, calls>>

(***************************************************************************)
(* Python values and dict operations                                       *)
(***************************************************************************)
\* Python's None (also JSON null); a value no token, code or name equals.
None == "None"

\* {} : the dict with no key.
EmptyDict == <<>>

\* d.get(k, default)
DictGet(d, k, default) == IF k \in DOMAIN d THEN d[k] ELSE default

\* d[k] = v
DictSet(d, k, v) == [x \in (DOMAIN d) \cup {k} |-> IF x = k THEN v ELSE d[x]]

\* All dicts with keys among ks whose value under each key k is in vals[k].
DictsOver(ks, vals) ==
    UNION { {d \in [K -> UNION {vals[k] : k \in K}] : \A k \in K : d[k] \in vals[k]}
            : K \in SUBSET ks }

\* Fault variant: the test "if token is None", which lets an empty token pass.
TruthyNotNone(v) == v # None

\* Truth value of a token as tested by "if not token": None and "" are falsy.
Truthy(v) == v # None /\ v # ""

\* seq[:n]
Take(seq, n) == SubSeq(seq, 1, IF Len(seq) < n THEN Len(seq) ELSE n)

(***************************************************************************)
(* Configuration and endpoints                                             *)
(***************************************************************************)
S3_BUCKET == "spotify-stats-reports-123"
CLIENT_ID == "client-id"
CLIENT_SECRET == "client-secret"
REDIRECT_URI == "https://app.example/callback"
SPOTIFY_AUTH_URL == "https://accounts.spotify.com/authorize"
SPOTIFY_TOKEN_URL == "https://accounts.spotify.com/api/token"
SPOTIFY_API_BASE_URL == "https://api.spotify.com/v1"
API_GATEWAY_URL == "https://uvdf0v98lb.execute-api.us-west-2.amazonaws.com/userstats"
ExpiresIn == 3600
TopN == 10

\* url_for(endpoint): the route each view function is registered under.
url_for(endpoint) ==
    CASE endpoint = "index" -> "/"
      [] endpoint = "login" -> "/login"
      [] endpoint = "callback" -> "/callback"
      [] endpoint = "stats" -> "/stats"
      [] endpoint = "logout" -> "/logout"
      [] endpoint = "recently_played" -> "/recently_played"
      [] endpoint = "export" -> "/export"

(***************************************************************************)
(* Responses and upstream calls                                            *)
(***************************************************************************)
\* flask.redirect(location)
redirect(location) == [status |-> 302, location |-> location]

\* a view returning a string, with an optional status
text_response(body, status) == [status |-> status, body |-> body]

\* flask.render_template(template, **context)
render_template(template, context) ==
    [status |-> 200, template |-> template, context |-> context]

\* an exception escaping the view function
unhandled_fault == [status |-> 500]

\* requests.get(url, headers=headers) answered by response
http_get(url, headers, response) ==
    [method |-> "GET", url |-> url, headers |-> headers, response |-> response]

\* requests.post(url, data=... or json=...) answered by response
http_post(url, body, response) ==
    [method |-> "POST", url |-> url, body |-> body, response |-> response]

(***************************************************************************)
(* GET /  and  GET /login                                                  *)
(***************************************************************************)
index(s) ==
    /\ req' = [route |-> "/", sid |-> s, args |-> EmptyDict, session |-> session[s]]
    /\ resp' = render_template("login.html", EmptyDict)
    /\ calls' = <<>>
    /\ UNCHANGED <<session, clock, s3>>

\* urllib.parse.urlencode(params) of the fixed login parameters: ':' and '/'
\* are percent-encoded and the space of SCOPE becomes '+'.
LoginQuery ==
    "client_id=" \o CLIENT_ID
      \o "&response_type=code"
      \o "&redirect_uri=https%3A%2F%2Fapp.example%2Fcallback"
      \o "&scope=user-read-recently-played+user-top-read"
      \o "&show_dialog=true"

login(s) ==
    /\ req' = [route |-> "/login", sid |-> s, args |-> EmptyDict, session |-> session[s]]
    /\ resp' = redirect(SPOTIFY_AUTH_URL \o "?" \o LoginQuery)
    /\ calls' = <<>>
    /\ UNCHANGED <<session, clock, s3>>

(***************************************************************************)
(* GET /callback                                                           *)
(***************************************************************************)
\* Fault variant: storing the tokens only when the exchange returned an access token.
SaveTokensKeepOld(sess, token_json) ==
    IF "access_token" \in DOMAIN token_json
    THEN DictSet(DictSet(sess, "access_token", token_json["access_token"]),
                 "refresh_token", DictGet(token_json, "refresh_token", None))
    ELSE sess

\* session["access_token"] = ...; session["refresh_token"] = ...
SaveTokens(sess, token_json) ==
    DictSet(DictSet(sess, "access_token", DictGet(token_json, "access_token", None)),
            "refresh_token", DictGet(token_json, "refresh_token", None))

\* Fault variant: a callback that keeps the tokens in one store shared by all sessions.
CallbackSharedStore(s, args, token_json) ==
    LET code == DictGet(args, "code", None)
        token_data == [grant_type |-> "authorization_code", code |-> code,
                       redirect_uri |-> REDIRECT_URI, client_id |-> CLIENT_ID,
                       client_secret |-> CLIENT_SECRET]
    IN  /\ req' = [route |-> "/callback", sid |-> s, args |-> args, session |-> session[s]]
        /\ IF code = None
           THEN /\ resp' = text_response("Authorization failed.", 400)
                /\ calls' = <<>>
                /\ UNCHANGED session
           ELSE /\ calls' = <<http_post(SPOTIFY_TOKEN_URL, token_data, token_json)>>
                /\ session' = [x \in DOMAIN session |-> SaveTokens(session[x], token_json)]
                /\ resp' = redirect(url_for("stats"))
        /\ UNCHANGED <<clock, s3>>

\* Fault variant: a callback that empties the session when the code is missing.
CallbackFailureClears(s, args, token_json) ==
    LET code == DictGet(args, "code", None)
        token_data == [grant_type |-> "authorization_code", code |-> code,
                       redirect_uri |-> REDIRECT_URI, client_id |-> CLIENT_ID,
                       client_secret |-> CLIENT_SECRET]
    IN  /\ req' = [route |-> "/callback", sid |-> s, args |-> args, session |-> session[s]]
        /\ IF code = None
           THEN /\ resp' = text_response("Authorization failed.", 400)
                /\ calls' = <<>>
                /\ session' = [session EXCEPT ![s] = EmptyDict]
           ELSE /\ calls' = <<http_post(SPOTIFY_TOKEN_URL, token_data, token_json)>>
                /\ session' = [session EXCEPT ![s] = SaveTokens(@, token_json)]
                /\ resp' = redirect(url_for("stats"))
        /\ UNCHANGED <<clock, s3>>

\* Fault variant: a callback that exchanges without checking that a code came.
CallbackNoCodeExchange(s, args, token_json) ==
    LET code == DictGet(args, "code", None)
        token_data == [grant_type |-> "authorization_code", code |-> code,
                       redirect_uri |-> REDIRECT_URI, client_id |-> CLIENT_ID,
                       client_secret |-> CLIENT_SECRET]
    IN  /\ req' = [route |-> "/callback", sid |-> s, args |-> args, session |-> session[s]]
        /\ calls' = <<http_post(SPOTIFY_TOKEN_URL, token_data, token_json)>>
        /\ session' = [session EXCEPT ![s] = SaveTokens(@, token_json)]
        /\ resp' = redirect(url_for("stats"))
        /\ UNCHANGED <<clock, s3>>

\* the view function: the 400 answer without a code, else exchange and store
callback(s, args, token_json) ==
    LET code == DictGet(args, "code", None)
        token_data == [grant_type |-> "authorization_code", code |-> code,
                       redirect_uri |-> REDIRECT_URI, client_id |-> CLIENT_ID,
                       client_secret |-> CLIENT_SECRET]
    IN  /\ req' = [route |-> "/callback", sid |-> s, args |-> args, session |-> session[s]]
        /\ IF code = None
           THEN /\ resp' = text_response("Authorization failed.", 400)
                /\ calls' = <<>>
                /\ UNCHANGED session
           ELSE /\ calls' = <<http_post(SPOTIFY_TOKEN_URL, token_data, token_json)>>
                /\ session' = [session EXCEPT ![s] = SaveTokens(@, token_json)]
                /\ resp' = redirect(url_for("stats"))
        /\ UNCHANGED <<clock, s3>>

(***************************************************************************)
(* GET /logout                                                             *)
(***************************************************************************)
\* Fault variant: a logout that removes the access token and keeps the rest.
ClearAccessOnly(sess) == [k \in (DOMAIN sess) \ {"access_token"} |-> sess[k]]

\* session.clear()
Clear(sess) == EmptyDict

logout(s) ==
    /\ req' = [route |-> "/logout", sid |-> s, args |-> EmptyDict, session |-> session[s]]
    /\ session' = [session EXCEPT ![s] = Clear(@)]
    /\ resp' = redirect(url_for("index"))
    /\ calls' = <<>>
    /\ UNCHANGED <<clock, s3>>

(***************************************************************************)
(* GET /stats                                                              *)
(***************************************************************************)
\* sep.join(names)
RECURSIVE join(_, _)
join(sep, names) ==
    IF names = <<>> THEN ""
    ELSE IF Len(names) = 1 THEN names[1]
    ELSE names[1] \o sep \o join(sep, Tail(names))

\* x["images"][0]["url"] if x["images"] else None
first_image(x) == IF x.images # <<>> THEN x.images[1].url ELSE None

\* the list comprehension building top_tracks
top_tracks_of(items) ==
    [i \in 1..Len(items) |->
        [name |-> items[i].name,
         artist |-> join(", ", [j \in 1..Len(items[i].artists) |-> items[i].artists[j].name]),
         image |-> first_image(items[i].album)]]

\* the list comprehension building top_artists
top_artists_of(items) ==
    [i \in 1..Len(items) |-> [name |-> items[i].name, image |-> first_image(items[i])]]

\* The dict albums, kept as the sequence of its <<key, value>> pairs in
\* insertion order (the order albums.values() iterates in).
AlbumKeys(albums) == {albums[i][1] : i \in 1..Len(albums)}

\* Fault variant: a loop that keeps the name and image of the last track of an album.
AlbumStepLastSeen(albums, t) ==
    LET album == t.album
        fresh == [name |-> album.name, image |-> first_image(album), count |-> 0]
    IN  IF album.id \notin AlbumKeys(albums)
        THEN Append(albums, <<album.id, [fresh EXCEPT !.count = 1]>>)
        ELSE [i \in 1..Len(albums) |->
                IF albums[i][1] = album.id
                THEN <<album.id, [fresh EXCEPT !.count = albums[i][2].count + 1]>>
                ELSE albums[i]]

\* one iteration of "for t in tracks_resp.get('items', [])"
AlbumStep(albums, t) ==
    LET album == t.album
        album_id == album.id
        inserted == IF album_id \notin AlbumKeys(albums)
                    THEN Append(albums, <<album_id, [name |-> album.name,
                                                     image |-> first_image(album),
                                                     count |-> 0]>>)
                    ELSE albums
    IN  [i \in 1..Len(inserted) |->
            IF inserted[i][1] = album_id
            THEN <<album_id, [inserted[i][2] EXCEPT !.count = @ + 1]>>
            ELSE inserted[i]]

\* the whole loop, starting from albums = {}
RECURSIVE AlbumLoop(_, _)
AlbumLoop(albums, items) ==
    IF items = <<>> THEN albums
    ELSE AlbumLoop(AlbumStep(albums, Head(items)), Tail(items))

\* albums.values()
values(albums) == [i \in 1..Len(albums) |-> albums[i][2]]

\* Fault variant: a sort that puts later elements before earlier ones of equal count.
InsertByCountTiesFirst(sorted, x) ==
    LET n == Cardinality({i \in 1..Len(sorted) : sorted[i].count > x.count})
    IN  SubSeq(sorted, 1, n) \o <<x>> \o SubSeq(sorted, n + 1, Len(sorted))

\* sorted(xs, key=lambda x: x["count"], reverse=True): a stable sort, equal
\* counts keep their input order.  InsertByCount puts x into a sorted list
\* behind every element whose count is not smaller.
InsertByCount(sorted, x) ==
    LET n == Cardinality({i \in 1..Len(sorted) : sorted[i].count >= x.count})
    IN  SubSeq(sorted, 1, n) \o <<x>> \o SubSeq(sorted, n + 1, Len(sorted))

RECURSIVE sorted_by_count_desc(_)
sorted_by_count_desc(xs) ==
    IF xs = <<>> THEN <<>>
    ELSE InsertByCount(sorted_by_count_desc(SubSeq(xs, 1, Len(xs) - 1)), xs[Len(xs)])

\* top_albums = sorted(albums.values(), ...)[:10]
top_albums_of(items) ==
    Take(sorted_by_count_desc(values(AlbumLoop(<<>>, items))), TopN)

stats(s, args, tracks_resp, artists_resp) ==
    LET token == DictGet(session[s], "access_token", None)
        time_range == DictGet(args, "time_range", "medium_term")
        headers == [Authorization |-> "Bearer " \o token]
        tracks_url == SPOTIFY_API_BASE_URL \o "/me/top/tracks?limit=10&time_range=" \o time_range
        artists_url == SPOTIFY_API_BASE_URL \o "/me/top/artists?limit=10&time_range=" \o time_range
        track_items == DictGet(tracks_resp, "items", <<>>)
        artist_items == DictGet(artists_resp, "items", <<>>)
    IN  /\ req' = [route |-> "/stats", sid |-> s, args |-> args, session |-> session[s]]
        /\ IF ~Truthy(token)
           THEN /\ resp' = redirect(url_for("login"))
                /\ calls' = <<>>
           ELSE /\ calls' = <<http_get(tracks_url, headers, tracks_resp),
                              http_get(artists_url, headers, artists_resp)>>
                /\ resp' = render_template("stats.html",
                              [tracks |-> top_tracks_of(track_items),
                               artists |-> top_artists_of(artist_items),
                               albums |-> top_albums_of(track_items),
                               current_time_range |-> time_range])
        /\ UNCHANGED <<session, clock, s3>>

(***************************************************************************)
(* GET /recently_played                                                    *)
(***************************************************************************)
\* the list comprehension building tracks; item["track"]["artists"][0] raises
\* IndexError when an item lists no artist
WellFormed(items) == \A i \in 1..Len(items) : items[i].track.artists # <<>>

\* Fault variant: a comprehension that takes the last artist of an item.
LastArtistTracksOf(items) ==
    [i \in 1..Len(items) |->
        [artist |-> items[i].track.artists[Len(items[i].track.artists)].name,
         album |-> items[i].track.album.name,
         played_at |-> items[i].played_at]]

played_tracks_of(items) ==
    [i \in 1..Len(items) |->
        [artist |-> items[i].track.artists[1].name,
         album |-> items[i].track.album.name,
         played_at |-> items[i].played_at]]

recently_played(s, rp, lambda_json) ==
    LET token == DictGet(session[s], "access_token", None)
        headers == [Authorization |-> "Bearer " \o token]
        url == SPOTIFY_API_BASE_URL \o "/me/player/recently-played?limit=50"
        fetch == http_get(url, headers, rp)
        items == DictGet(rp.json, "items", <<>>)
        payload == [user_id |-> "demo", tracks |-> played_tracks_of(items)]
    IN  /\ req' = [route |-> "/recently_played", sid |-> s, args |-> EmptyDict, session |-> session[s]]
        /\ IF ~Truthy(token)
           THEN /\ resp' = redirect(url_for("login"))
                /\ calls' = <<>>
           ELSE IF rp.status_code # 200
           THEN /\ resp' = text_response("Error fetching Spotify data: " \o rp.text, 200)
                /\ calls' = <<fetch>>
           ELSE IF ~WellFormed(items)
           THEN /\ resp' = unhandled_fault
                /\ calls' = <<fetch>>
           ELSE /\ calls' = <<fetch, http_post(API_GATEWAY_URL, payload, lambda_json)>>
                /\ resp' = render_template("recently_played.html", [stats |-> lambda_json])
        /\ UNCHANGED <<session, clock, s3>>

(***************************************************************************)
(* GET /export                                                             *)
(***************************************************************************)
\* csv.writer with the default dialect: a field holding the delimiter, the
\* quote character or a line break is wrapped in quotes and its quote
\* characters are doubled (QUOTE_MINIMAL); rows end with "\r\n".
CsvSpecial == {",", "\"", "\r", "\n"}

needs_quoting(field) ==
    \E i \in 1..Len(field) : SubSeq(field, i, i) \in CsvSpecial

RECURSIVE double_quotes(_)
double_quotes(field) ==
    IF Len(field) = 0 THEN ""
    ELSE (IF SubSeq(field, 1, 1) = "\"" THEN "\"\"" ELSE SubSeq(field, 1, 1))
            \o double_quotes(SubSeq(field, 2, Len(field)))

\* Fault variant: a writer that never quotes a field.
csv_field_raw(field) == field

csv_field(field) ==
    IF needs_quoting(field) THEN "\"" \o double_quotes(field) \o "\"" ELSE field

\* writer.writerow(row) appending to output; row's fields already str()-ed
writerow(output, row) ==
    output \o join(",", [i \in 1..Len(row) |-> csv_field(row[i])]) \o "\r\n"

\* the loop "for t in items: writer.writerow([kind, t['name'], t['popularity']])"
RECURSIVE write_items(_, _, _)
write_items(output, kind, items) ==
    IF items = <<>> THEN output
    ELSE write_items(writerow(output, <<kind, Head(items).name,
                                        ToString(Head(items).popularity)>>),
                     kind, Tail(items))

\* Fault variant: artists written before tracks.
ArtistsFirstCsv(track_items, artist_items) ==
    write_items(write_items(writerow("", <<"Type", "Name", "Popularity">>),
                            "Artist", artist_items),
                "Track", track_items)

\* the content of output after the header and the two loops
csv_data_of(track_items, artist_items) ==
    write_items(write_items(writerow("", <<"Type", "Name", "Popularity">>),
                            "Track", track_items),
                "Artist", artist_items)

\* datetime.datetime.now().strftime('%Y%m%d%H%M%S'); clock counts the seconds
\* of wall-clock time elapsed since 2024-01-01 00:00:00
Pad2(n) == IF n < 10 THEN "0" \o ToString(n) ELSE ToString(n)

strftime(t) ==
    "20240101" \o Pad2((t \div 3600) % 24) \o Pad2((t \div 60) % 60) \o Pad2(t % 60)

\* Fault variant: a filename without the time range.
FilenameNoRange(time_range, t) == "spotify_report_" \o strftime(t) \o ".csv"

\* the f-string building filename
filename_of(time_range, t) ==
    "spotify_report_" \o time_range \o "_" \o strftime(t) \o ".csv"

\* s3_client.put_object(Bucket=, Key=, Body=)
put_object(bucket, key, body) ==
    [method |-> "put_object", Bucket |-> bucket, Key |-> key, Body |-> body]

\* urllib quoting of an object key inside a URL: letters, digits and "_.-~/"
\* stay, every other character is percent-encoded (space and comma are the
\* ones the keys of this model can hold)
quoter(c) ==
    CASE c = " " -> "%20"
      [] c = "," -> "%2C"
      [] OTHER -> c

\* ''.join(parts)
RECURSIVE concat(_)
concat(parts) ==
    IF Len(parts) = 0 THEN ""
    ELSE IF Len(parts) = 1 THEN parts[1]
    ELSE concat(SubSeq(parts, 1, Len(parts) \div 2))
            \o concat(SubSeq(parts, Len(parts) \div 2 + 1, Len(parts)))

url_quote(str) == concat([i \in 1..Len(str) |-> quoter(SubSeq(str, i, i))])

\* s3_client.generate_presigned_url("get_object", Params=, ExpiresIn=): the
\* link returned grants reading of one object for a limited time (the
\* signature parameters are left out)
presigned_url(bucket, key, expires) ==
    "https://" \o bucket \o ".s3.amazonaws.com/" \o url_quote(key)
        \o "?X-Amz-Expires=" \o ToString(expires)

generate_presigned_url(bucket, key, expires) ==
    [method |-> "generate_presigned_url", Bucket |-> bucket, Key |-> key,
     response |-> presigned_url(bucket, key, expires)]

export(s, args, tracks_resp, artists_resp) ==
    LET token == DictGet(session[s], "access_token", None)
        time_range == DictGet(args, "time_range", "medium_term")
        headers == [Authorization |-> "Bearer " \o token]
        tracks_url == SPOTIFY_API_BASE_URL \o "/me/top/tracks?limit=20&time_range=" \o time_range
        artists_url == SPOTIFY_API_BASE_URL \o "/me/top/artists?limit=20&time_range=" \o time_range
        csv_data == csv_data_of(DictGet(tracks_resp, "items", <<>>),
                                DictGet(artists_resp, "items", <<>>))
        filename == filename_of(time_range, clock)
        presign == generate_presigned_url(S3_BUCKET, filename, ExpiresIn)
    IN  /\ req' = [route |-> "/export", sid |-> s, args |-> args, session |-> session[s]]
        /\ IF ~Truthy(token)
           THEN /\ resp' = redirect(url_for("login"))
                /\ calls' = <<>>
                /\ UNCHANGED s3
           ELSE /\ calls' = <<http_get(tracks_url, headers, tracks_resp),
                              http_get(artists_url, headers, artists_resp),
                              put_object(S3_BUCKET, filename, csv_data),
                              presign>>
                /\ s3' = DictSet(s3, filename, csv_data)
                /\ resp' = redirect(presign.response)
        /\ UNCHANGED <<session, clock>>

\* One second of wall-clock time passes between two requests.
Tick ==
    /\ clock' = clock + 1
    /\ UNCHANGED <<session, s3, req, resp, calls>>

(***************************************************************************)
(* Initial state and the inputs of the requests                            *)
(***************************************************************************)
\* Browser sessions; each holds its own session dict.
Sessions == {"s1", "s2"}

\* No request handled yet: every session dict is empty, the bucket is empty.
InitOver(S) ==
    /\ session = [s \in S |-> EmptyDict]
    /\ clock = 0
    /\ s3 = EmptyDict
    /\ req = [route |-> "", sid |-> "", args |-> EmptyDict, session |-> EmptyDict]
    /\ resp = [status |-> 0]
    /\ calls = <<>>

\* sequences over pool of length at most n
SeqsUpTo(pool, n) == UNION {[1..k -> pool] : k \in 0..n}

\* query strings of /callback: no code, a code, an empty code
CallbackArgs == DictsOver({"code"}, [code |-> {"c1", ""}])

\* bodies of the token endpoint: any subset of the two token fields, the
\* access token a token, empty or null
TokenJsons ==
    DictsOver({"access_token", "refresh_token"},
              [access_token |-> {"T1", "T2", "", None},
               refresh_token |-> {"R1"}])

\* query strings of /stats and /export
RangeArgs == DictsOver({"time_range"}, [time_range |-> {"long_term", "7 d"}])

\* the body the streaming API answers with when it rejects the token
ErrorJson == [error |-> [status |-> 401, message |-> "The access token expired"]]

(* track, artist and recently-played objects of the streaming API *)
Album1 == [id |-> "al1", name |-> "X", images |-> <<[url |-> "u1"], [url |-> "u2"]>>]
Album1Deluxe == [id |-> "al1", name |-> "X (Deluxe)", images |-> <<>>]
Album2 == [id |-> "al2", name |-> "Y", images |-> <<>>]
Album3 == [id |-> "al3", name |-> "Z", images |-> <<[url |-> "u3"]>>]

TrackPool ==
    { [name |-> "A", popularity |-> 50, album |-> Album1,
       artists |-> <<[name |-> "P"], [name |-> "Q"]>>],
      [name |-> "B", popularity |-> 60, album |-> Album1Deluxe,
       artists |-> <<[name |-> "P"]>>],
      [name |-> "Hello, \"World\"", popularity |-> 5, album |-> Album2,
       artists |-> <<[name |-> "Q"]>>],
      [name |-> "D", popularity |-> 50, album |-> Album3,
       artists |-> <<[name |-> "R"], [name |-> "P"]>>] }

ArtistPool ==
    { [name |-> "C", popularity |-> 70, images |-> <<[url |-> "u4"]>>],
      [name |-> "AC,DC", popularity |-> 100, images |-> <<>>] }

PlayedPool ==
    { [track |-> [artists |-> <<[name |-> "P"], [name |-> "Q"]>>, album |-> [name |-> "X"]],
       played_at |-> "2024-01-01T00:00:01Z"],
      [track |-> [artists |-> <<[name |-> "Q"]>>, album |-> [name |-> "Y"]],
       played_at |-> "2024-01-01T00:00:02Z"],
      [track |-> [artists |-> <<>>, album |-> [name |-> "Z"]],
       played_at |-> "2024-01-01T00:00:03Z"] }

\* {"items": [...]} bodies with at most n items of pool
ItemsJsons(pool, n) == {[items |-> q] : q \in SeqsUpTo(pool, n)}

\* responses of the recently-played endpoint: status, raw body, parsed body
PlayedResponses(jsons) ==
    [status_code : {200, 401}, text : {"", "{\"error\": \"expired\"}"}, json : jsons]

\* bodies the aggregation endpoint answers with
LambdaJsons == {[top_artist |-> "P"], [message |-> "Internal Server Error"]}

(***************************************************************************)
(* Session lifecycle: every route, two sessions, small upstream bodies     *)
(***************************************************************************)
Init == InitOver(Sessions)

Next ==
    \/ \E s \in Sessions : index(s)
    \/ \E s \in Sessions : login(s)
    \/ \E s \in Sessions, args \in CallbackArgs, token_json \in TokenJsons :
          callback(s, args, token_json)
    \/ \E s \in Sessions, args \in RangeArgs,
          tracks_resp \in {ErrorJson} \cup ItemsJsons(TrackPool, 1) :
          stats(s, args, tracks_resp, [items |-> <<>>])
    \/ \E s \in Sessions : logout(s)
    \/ \E s \in Sessions,
          rp \in {[status_code |-> 401, text |-> "{\"error\": \"expired\"}", json |-> ErrorJson],
                  [status_code |-> 200, text |-> "", json |-> [items |-> <<>>]]} :
          recently_played(s, rp, [top_artist |-> "P"])
    \/ \E s \in Sessions, args \in {EmptyDict}, artists_resp \in ItemsJsons(ArtistPool, 1) :
          export(s, args, ErrorJson, artists_resp)

Spec == Init /\ [][Next]_vars

(***************************************************************************)
(* Vocabulary of the properties                                            *)
(***************************************************************************)
Protected == {"/stats", "/recently_played", "/export"}

\* the session dict holds an access token: present, not null, not empty
HoldsToken(sess) ==
    /\ "access_token" \in DOMAIN sess
    /\ sess["access_token"] # None
    /\ sess["access_token"] # ""

\* the value stored under key k, null when the key is absent
Stored(sess, k) == IF k \in DOMAIN sess THEN sess[k] ELSE None

LoginRedirect == [status |-> 302, location |-> "/login"]

StartsWith(str, prefix) ==
    Len(str) >= Len(prefix) /\ SubSeq(str, 1, Len(prefix)) = prefix

\* calls to the streaming API among the upstream calls of the last request
StreamingCalls ==
    {i \in 1..Len(calls) :
        calls[i].method = "GET" /\ StartsWith(calls[i].url, "https://api.spotify.com/v1/")}

\* the last request was a /callback carrying a code, answered by the token
\* endpoint with the body calls[1].response
ExchangeDone ==
    /\ req.route = "/callback"
    /\ "code" \in DOMAIN req.args
    /\ Len(calls) = 1
    /\ calls[1].method = "POST"
    /\ calls[1].url = "https://accounts.spotify.com/api/token"

\* ... and that body carried a non-null, non-empty access token
ExchangeGaveToken == ExchangeDone /\ HoldsToken(calls[1].response)

(***************************************************************************)
(* C1: a request to /stats, /recently_played or /export that arrives with  *)
(* no access token in its session (absent, null or empty) is answered by a *)
(* redirect to the login route and makes no upstream call.                 *)
(***************************************************************************)
C1_NoTokenRedirectsToLogin ==
    (req.route \in Protected /\ ~HoldsToken(req.session))
        => /\ resp = LoginRedirect
           /\ calls = <<>>
           /\ session[req.sid] = req.session

\* an /export arriving with an empty-string access token was redirected
C1_Witness ==
    /\ req.route = "/export"
    /\ Stored(req.session, "access_token") = ""
    /\ resp = LoginRedirect

(***************************************************************************)
(* C2: /callback without a code parameter answers 400 with the body        *)
(* "Authorization failed.", issues no token-exchange POST and leaves the   *)
(* session's tokens as they were.                                          *)
(***************************************************************************)
C2_CallbackWithoutCode ==
    (req.route = "/callback" /\ "code" \notin DOMAIN req.args)
        => /\ resp = [status |-> 400, body |-> "Authorization failed."]
           /\ calls = <<>>
           /\ session[req.sid] = req.session

\* a code-less /callback reached an authenticated session
C2_Witness ==
    /\ req.route = "/callback"
    /\ "code" \notin DOMAIN req.args
    /\ HoldsToken(req.session)
    /\ resp.status = 400

(***************************************************************************)
(* C3: once a /callback exchange has returned access token T and refresh   *)
(* token R in a session, the session stores them, no request other than a  *)
(* /logout or a /callback with a code in that same session changes them,   *)
(* and every /stats, /recently_played and /export of the session is        *)
(* treated as authenticated and sends "Authorization: Bearer T" on each    *)
(* streaming-API call.                                                     *)
(***************************************************************************)
\* the exchange's tokens are what the session holds after the callback
C3_ExchangeStored ==
    ExchangeGaveToken
        => /\ Stored(session[req.sid], "access_token") = calls[1].response["access_token"]
           /\ Stored(session[req.sid], "refresh_token") = Stored(calls[1].response, "refresh_token")

\* a protected request arriving with token T calls upstream with Bearer T
C3_BearerSent ==
    (req.route \in Protected /\ HoldsToken(req.session))
        => /\ resp # LoginRedirect
           /\ StreamingCalls # {}
           /\ 1 \in StreamingCalls
           /\ \A i \in StreamingCalls :
                 calls[i].headers = [Authorization |-> "Bearer " \o req.session["access_token"]]

\* a step leaves every authenticated session alone unless it is a /logout
\* or a /callback with a code in that session
C3_TokenKept ==
    \A s \in DOMAIN session :
        (HoldsToken(session[s]) /\ session'[s] # session[s])
            => /\ req'.sid = s
               /\ \/ req'.route = "/logout"
                  \/ req'.route = "/callback" /\ "code" \in DOMAIN req'.args

C3_BearerOfExchangedToken ==
    [][C3_ExchangeStored' /\ C3_BearerSent' /\ C3_TokenKept]_vars

\* session s1 exports with its own token while s2 holds another one
C3_Witness ==
    /\ req.route = "/export"
    /\ req.sid = "s1"
    /\ Stored(session["s1"], "access_token") = "T1"
    /\ Stored(session["s2"], "access_token") = "T2"
    /\ Len(calls) = 4
    /\ calls[1].headers = [Authorization |-> "Bearer T1"]

(***************************************************************************)
(* C4: /logout leaves the session with neither an access token nor a       *)
(* refresh token, from whatever state it was in; nothing but a /callback   *)
(* gives the session a token again, and a /stats arriving without a token  *)
(* (in particular the next one after the /logout) is redirected to login   *)
(* without any upstream call.                                              *)
(***************************************************************************)
C4_LogoutClears ==
    req.route = "/logout"
        => /\ Stored(session[req.sid], "access_token") = None
           /\ Stored(session[req.sid], "refresh_token") = None
           /\ DOMAIN session[req.sid] = {}

C4_StatsRedirects ==
    (req.route = "/stats" /\ ~HoldsToken(req.session))
        => resp = LoginRedirect /\ calls = <<>>

\* a session without a token gets one only by a /callback of its own
C4_StaysLoggedOut ==
    \A s \in DOMAIN session :
        (~HoldsToken(session[s]) /\ HoldsToken(session'[s]))
            => req'.sid = s /\ req'.route = "/callback"

\* the /stats that directly follows a /logout in the same session
C4_NextStats ==
    (req.route = "/logout" /\ req'.route = "/stats" /\ req'.sid = req.sid)
        => resp' = LoginRedirect /\ calls' = <<>>

C4_LogoutThenStats ==
    [][C4_LogoutClears' /\ C4_StatsRedirects' /\ C4_StaysLoggedOut /\ C4_NextStats]_vars

\* a /logout arrived with both tokens in the session and left none
C4_Witness ==
    /\ req.route = "/logout"
    /\ HoldsToken(req.session)
    /\ Stored(req.session, "refresh_token") = "R1"
    /\ session[req.sid] = EmptyDict

(***************************************************************************)
(* C7: a session becomes AUTHENTICATED (access token held) only by a       *)
(* /callback of its own whose exchange returned an access token, and an    *)
(* AUTHENTICATED session becomes ANONYMOUS again only by its own /logout;  *)
(* no other request, a later /callback included, does that.                *)
(***************************************************************************)
C7_BecomesAuthenticated ==
    \A s \in DOMAIN session :
        (~HoldsToken(session[s]) /\ HoldsToken(session'[s]))
            => /\ req'.sid = s
               /\ ExchangeGaveToken'
               /\ session'[s]["access_token"] = calls'[1].response["access_token"]

C7_OnlyLogoutEnds ==
    \A s \in DOMAIN session :
        (HoldsToken(session[s]) /\ ~HoldsToken(session'[s]))
            => req'.sid = s /\ req'.route = "/logout"

C7_Original == [][C7_BecomesAuthenticated /\ C7_OnlyLogoutEnds]_vars

(***************************************************************************)
(* C7 as amended: ... an AUTHENTICATED session becomes ANONYMOUS again     *)
(* only by its own /logout or by its own /callback with a code whose token *)
(* exchange returned no access token (absent, null or empty).              *)
(***************************************************************************)
C7_LogoutOrFailedExchangeEnds ==
    \A s \in DOMAIN session :
        (HoldsToken(session[s]) /\ ~HoldsToken(session'[s]))
            => /\ req'.sid = s
               /\ \/ req'.route = "/logout"
                  \/ ExchangeDone' /\ ~HoldsToken(calls'[1].response)

C7_Amended == [][C7_BecomesAuthenticated /\ C7_LogoutOrFailedExchangeEnds]_vars

\* a /callback with a code reached an authenticated session and left it
\* anonymous
C7_Witness ==
    /\ ExchangeDone
    /\ HoldsToken(req.session)
    /\ ~HoldsToken(session[req.sid])

(***************************************************************************)
(* C8: a /callback with a code whose exchange response carries no          *)
(* access_token stores the null values that came back, still redirects to  *)
(* /stats, and the /stats that follows in that session finds no token and  *)
(* redirects to login without calling the streaming API.                   *)
(***************************************************************************)
ExchangeFailed == ExchangeDone /\ Stored(calls[1].response, "access_token") = None

C8_NullStored ==
    ExchangeFailed
        => /\ {"access_token", "refresh_token"} \subseteq DOMAIN session[req.sid]
           /\ session[req.sid]["access_token"] = None
           /\ session[req.sid]["refresh_token"] = Stored(calls[1].response, "refresh_token")
           /\ resp = [status |-> 302, location |-> "/stats"]

C8_FollowingStats ==
    (ExchangeFailed /\ req'.route = "/stats" /\ req'.sid = req.sid)
        => resp' = LoginRedirect /\ calls' = <<>>

C8_FailedExchange == [][C8_NullStored' /\ C8_FollowingStats]_vars

\* the /stats after a failed exchange: the session holds a null access token
\* under its key and the request was redirected
C8_Witness ==
    /\ req.route = "/stats"
    /\ "access_token" \in DOMAIN req.session
    /\ req.session["access_token"] = None
    /\ req.session["refresh_token"] = None
    /\ resp = LoginRedirect

(***************************************************************************)
(* Statistics page: one session, top-tracks results of up to MaxTracks     *)
(* tracks that share album identifiers                                     *)
(***************************************************************************)
MaxTracks == 4

GoodTokenJson == [access_token |-> "T1", refresh_token |-> "R1"]

TwoArtists ==
    [items |-> <<[name |-> "C", popularity |-> 70, images |-> <<[url |-> "u4"]>>],
                 [name |-> "AC,DC", popularity |-> 100, images |-> <<>>]>>]

InitStats == InitOver({"s1"})

NextStats ==
    \/ callback("s1", [code |-> "c1"], GoodTokenJson)
    \/ \E tracks_resp \in {ErrorJson} \cup ItemsJsons(TrackPool, MaxTracks) :
          stats("s1", EmptyDict, tracks_resp, TwoArtists)
    \/ logout("s1")

SpecStats == InitStats /\ [][NextStats]_vars

(***************************************************************************)
(* C5: for a top-tracks result of at most 10 tracks the album list of      *)
(* /stats has exactly one entry per distinct album id (so at most 10), the *)
(* entry's count is the number of tracks with that id, its name and image  *)
(* are those of the first track with that id, and the entries are ordered  *)
(* by count descending, equal counts in order of first occurrence.         *)
(***************************************************************************)
\* the tracks the streaming API returned to the last /stats
StatsItems ==
    IF "items" \in DOMAIN calls[1].response THEN calls[1].response["items"] ELSE <<>>

AlbumIds == {StatsItems[i].album.id : i \in 1..Len(StatsItems)}

Occurrences(id) == {i \in 1..Len(StatsItems) : StatsItems[i].album.id = id}

FirstOccurrence(id) ==
    CHOOSE i \in Occurrences(id) : \A j \in Occurrences(id) : i <= j

\* album a is listed before album b
ListedBefore(a, b) ==
    \/ Cardinality(Occurrences(a)) > Cardinality(Occurrences(b))
    \/ /\ Cardinality(Occurrences(a)) = Cardinality(Occurrences(b))
       /\ FirstOccurrence(a) < FirstOccurrence(b)

Position(id) == 1 + Cardinality({a \in AlbumIds : ListedBefore(a, id)})

ExpectedEntry(id) ==
    LET album == StatsItems[FirstOccurrence(id)].album
    IN  [name |-> album.name,
         image |-> IF Len(album.images) > 0 THEN album.images[1].url ELSE None,
         count |-> Cardinality(Occurrences(id))]

C5_AlbumList ==
    (req.route = "/stats" /\ HoldsToken(req.session) /\ Len(StatsItems) <= 10)
        => /\ resp.status = 200
           /\ Len(resp.context.albums) = Cardinality(AlbumIds)
           /\ Len(resp.context.albums) <= 10
           /\ \A id \in AlbumIds : resp.context.albums[Position(id)] = ExpectedEntry(id)

\* four tracks: one of album al2, one of al3, then two of al1 whose first
\* carries the name "X (Deluxe)"; al1 is listed first with count 2, the tie
\* of al2 and al3 keeps their order
C5_Witness ==
    /\ req.route = "/stats"
    /\ HoldsToken(req.session)
    /\ Len(StatsItems) = 4
    /\ StatsItems[1].album.id = "al2"
    /\ StatsItems[2].album.id = "al3"
    /\ resp.context.albums =
          <<[name |-> "X (Deluxe)", image |-> None, count |-> 2],
            [name |-> "Y", image |-> None, count |-> 1],
            [name |-> "Z", image |-> "u3", count |-> 1]>>

(***************************************************************************)
(* Recently-played relay: one session, fetches of up to MaxItems items     *)
(***************************************************************************)
MaxItems == 3

InitRecent == InitOver({"s1"})

NextRecent ==
    \/ callback("s1", [code |-> "c1"], GoodTokenJson)
    \/ \E rp \in PlayedResponses({ErrorJson} \cup ItemsJsons(PlayedPool, MaxItems)),
          lambda_json \in LambdaJsons :
          recently_played("s1", rp, lambda_json)
    \/ logout("s1")

SpecRecent == InitRecent /\ [][NextRecent]_vars

(***************************************************************************)
(* C9: in an authenticated /recently_played, a fetch answered with a       *)
(* non-200 status gives an HTTP 200 response whose body is the error       *)
(* message followed by the raw upstream body, and no POST to the           *)
(* aggregation endpoint; a POST to that endpoint is made only after a 200  *)
(* fetch, and then exactly once, with user_id "demo" and one {artist,      *)
(* album, played_at} entry per fetched item in upstream order.             *)
(***************************************************************************)
AggregationPosts ==
    {i \in 1..Len(calls) :
        /\ calls[i].method = "POST"
        /\ calls[i].url = "https://uvdf0v98lb.execute-api.us-west-2.amazonaws.com/userstats"}

\* the items of the fetch the last /recently_played made
FetchedItems ==
    IF "items" \in DOMAIN calls[1].response.json
    THEN calls[1].response.json["items"] ELSE <<>>

ExpectedPlayed(item) ==
    [artist |-> Head(item.track.artists).name,
     album |-> item.track.album.name,
     played_at |-> item.played_at]

C9_RecentlyPlayedRelay ==
    (req.route = "/recently_played" /\ HoldsToken(req.session))
        => /\ Len(calls) >= 1
           /\ calls[1].method = "GET"
           /\ calls[1].url = "https://api.spotify.com/v1/me/player/recently-played?limit=50"
           /\ calls[1].response.status_code # 200
                => /\ resp = [status |-> 200,
                              body |-> "Error fetching Spotify data: " \o calls[1].response.text]
                   /\ AggregationPosts = {}
           /\ AggregationPosts # {}
                => /\ calls[1].response.status_code = 200
                   /\ AggregationPosts = {2}
                   /\ Len(calls) = 2
                   /\ calls[2].body.user_id = "demo"
                   /\ Len(calls[2].body.tracks) = Len(FetchedItems)
                   /\ \A i \in 1..Len(FetchedItems) :
                         calls[2].body.tracks[i] = ExpectedPlayed(FetchedItems[i])
           /\ ( /\ calls[1].response.status_code = 200
                /\ \A i \in 1..Len(FetchedItems) : Len(FetchedItems[i].track.artists) > 0 )
                => AggregationPosts = {2}

\* a 401 fetch whose body nevertheless lists items: the error text is
\* returned with status 200 and nothing is posted
C9_Witness ==
    /\ req.route = "/recently_played"
    /\ HoldsToken(req.session)
    /\ calls[1].response.status_code = 401
    /\ Len(FetchedItems) = 2
    /\ resp = [status |-> 200, body |-> "Error fetching Spotify data: {\"error\": \"expired\"}"]
    /\ Len(calls) = 1

(***************************************************************************)
(* Report export: one session, results of up to MaxCsvTracks tracks and    *)
(* MaxCsvArtists artists, names with commas and quotes among them.  The    *)
(* bucket is watched while it holds the report of one key.                 *)
(***************************************************************************)
MaxCsvTracks == 2
MaxCsvArtists == 1

InitCsv == InitOver({"s1"})

NextCsv ==
    \/ callback("s1", [code |-> "c1"], GoodTokenJson)
    \/ \E args \in RangeArgs,
          tracks_resp \in {ErrorJson} \cup ItemsJsons({t \in TrackPool : t.name # "D"}, MaxCsvTracks),
          artists_resp \in ItemsJsons(ArtistPool, MaxCsvArtists) :
          /\ DOMAIN s3 \subseteq {filename_of(DictGet(args, "time_range", "medium_term"), clock)}
          /\ export("s1", args, tracks_resp, artists_resp)
    \/ logout("s1")

SpecCsv == InitCsv /\ [][NextCsv]_vars

(***************************************************************************)
(* C6: an authenticated /export with time range r writes to object         *)
(* storage the header row Type,Name,Popularity, then one row               *)
(* Track,name,popularity per track in upstream order, then one row         *)
(* Artist,name,popularity per artist in upstream order; the key it writes  *)
(* under contains r as a substring, and the response redirects to a        *)
(* retrieval URL generated, after the write, for that same key.            *)
(***************************************************************************)
\* Reading CSV text back into rows of fields.  A character stands inside a
\* quoted field when an odd number of quote characters precedes it; rows end
\* at the line breaks outside quoted fields, fields at the commas outside
\* them; a quoted field loses its outer quotes and one quote of every pair.
CharAt(str, i) == SubSeq(str, i, i)

QuotesBefore(str, i) == Cardinality({j \in 1..(i - 1) : CharAt(str, j) = "\""})

SplitOutsideQuotes(str, sep) ==
    LET breaks == {i \in 1..Len(str) :
                      CharAt(str, i) = sep /\ QuotesBefore(str, i) % 2 = 0}
        n == Cardinality(breaks)
        pos(k) == IF k = 0 THEN 0
                  ELSE IF k = n + 1 THEN Len(str) + 1
                  ELSE CHOOSE b \in breaks : Cardinality({x \in breaks : x < b}) = k - 1
    IN  [k \in 1..(n + 1) |-> SubSeq(str, pos(k - 1) + 1, pos(k) - 1)]

RECURSIVE Glue(_)
Glue(parts) ==
    IF Len(parts) = 0 THEN ""
    ELSE IF Len(parts) = 1 THEN parts[1]
    ELSE Glue(SubSeq(parts, 1, Len(parts) \div 2))
            \o Glue(SubSeq(parts, Len(parts) \div 2 + 1, Len(parts)))

Unquote(field) ==
    IF Len(field) >= 2 /\ CharAt(field, 1) = "\"" /\ CharAt(field, Len(field)) = "\""
    THEN LET inner == SubSeq(field, 2, Len(field) - 1)
         IN  Glue([i \in 1..Len(inner) |->
                    IF CharAt(inner, i) = "\"" /\ QuotesBefore(inner, i) % 2 = 1
                    THEN "" ELSE CharAt(inner, i)])
    ELSE field

StripCR(line) ==
    IF Len(line) > 0 /\ CharAt(line, Len(line)) = "\r"
    THEN SubSeq(line, 1, Len(line) - 1) ELSE line

ReadCsv(str) ==
    LET lines == SplitOutsideQuotes(str, "\n")
        fields(line) == SplitOutsideQuotes(StripCR(line), ",")
        kept == IF lines[Len(lines)] = "" THEN Len(lines) - 1 ELSE Len(lines)
    IN  [k \in 1..kept |->
            [f \in 1..Len(fields(lines[k])) |-> Unquote(fields(lines[k])[f])]]

Contains(str, sub) ==
    \E i \in 1..(Len(str) + 1) :
        i + Len(sub) - 1 <= Len(str) /\ SubSeq(str, i, i + Len(sub) - 1) = sub

ItemsOf(json) == IF "items" \in DOMAIN json THEN json["items"] ELSE <<>>

RequestedRange ==
    IF "time_range" \in DOMAIN req.args THEN req.args["time_range"] ELSE "medium_term"

ExpectedRows ==
    LET tracks == ItemsOf(calls[1].response)
        artists == ItemsOf(calls[2].response)
    IN  <<<<"Type", "Name", "Popularity">>>>
          \o [i \in 1..Len(tracks) |->
                <<"Track", tracks[i].name, ToString(tracks[i].popularity)>>]
          \o [i \in 1..Len(artists) |->
                <<"Artist", artists[i].name, ToString(artists[i].popularity)>>]

C6_ExportedReport ==
    (req.route = "/export" /\ HoldsToken(req.session))
        => /\ Len(calls) = 4
           /\ calls[3].method = "put_object"
           /\ ReadCsv(calls[3].Body) = ExpectedRows
           /\ Contains(calls[3].Key, RequestedRange)
           /\ calls[3].Key \in DOMAIN s3
           /\ s3[calls[3].Key] = calls[3].Body
           /\ calls[4].method = "generate_presigned_url"
           /\ calls[4].Bucket = calls[3].Bucket
           /\ calls[4].Key = calls[3].Key
           /\ resp = [status |-> 302, location |-> calls[4].response]

\* the report of tracks A (50), B (60) and artist C (70) for long_term
C6_Witness ==
    /\ req.route = "/export"
    /\ req.args = [time_range |-> "long_term"]
    /\ Len(calls) = 4
    /\ calls[3].Body = "Type,Name,Popularity\r\nTrack,A,50\r\nTrack,B,60\r\nArtist,C,70\r\n"
    /\ calls[3].Key = "spotify_report_long_term_20240101000000.csv"
    /\ s3 = [k \in {calls[3].Key} |-> calls[3].Body]
    /\ resp.status = 302
    /\ Contains(resp.location, calls[3].Key)

(***************************************************************************)
(* Object storage over time: two sessions export while the wall clock      *)
(* advances up to MaxClock seconds                                         *)
(***************************************************************************)
MaxClock == 1

InitStorage == InitOver(Sessions)

NextStorage ==
    \/ \E s \in Sessions : callback(s, [code |-> "c1"], GoodTokenJson)
    \/ \E s \in Sessions, args \in {EmptyDict, [time_range |-> "long_term"]},
          tracks_resp \in ItemsJsons({t \in TrackPool : t.name = "A"}, 1) :
          export(s, args, tracks_resp, [items |-> <<>>])
    \/ clock < MaxClock /\ Tick

SpecStorage == InitStorage /\ [][NextStorage]_vars

(***************************************************************************)
(* C10: every export blob is written once and never updated: no /export,   *)
(* from whatever session, writes to a key an earlier /export has written.  *)
(***************************************************************************)
C10_KeysNeverReused ==
    [][ (clock' = clock /\ req'.route = "/export" /\ Len(calls') = 4)
            => /\ calls'[3].Key \notin DOMAIN s3
               /\ \A k \in DOMAIN s3 : k \in DOMAIN s3' /\ s3'[k] = s3[k] ]_vars

====
